---------------------------- MODULE Spec2Model ----------------------------
(***************************************************************************)
(* Model of stock_api.py: a FastAPI backend with four endpoints            *)
(*   GET /  GET /health  GET /items  POST /submit_count                    *)
(* over a remote spreadsheet.  The process-wide configuration is read from *)
(* the environment once, at import; every handler is stateless.  Handlers  *)
(* of different requests may interleave; a handler is split at its remote  *)
(* call (the only place where it touches anything shared).                 *)
(***************************************************************************)
EXTENDS Integers, Sequences, FiniteSets, TLC

(***************************************************************************)
(* Bounds of the model.                                                    *)
(***************************************************************************)
\* Requests the server handles in one behaviour (they may be concurrent).
NumRequests == 2
\* Longest Item_Master column read back (rows), and longest cell (characters).
MaxRows == 3
MaxCellLen == 2

Requests == 1..NumRequests

(***************************************************************************)
(* Optional text: os.getenv(...) and the X-Shared-Pin header are either    *)
(* None or a str.  Python truthiness: None and "" are falsy.               *)
(***************************************************************************)
None == [set |-> FALSE, val |-> ""]
Str(s) == [set |-> TRUE, val |-> s]
Truthy(o) == o.set /\ o.val # ""

\* A path is the sequence of its components; an absolute path starts at "/".
NonePath == [set |-> FALSE, val |-> <<>>]
Path(p) == [set |-> TRUE, val |-> p]
TruthyPath(o) == o.set /\ Len(o.val) > 0

(***************************************************************************)
(* Constants of the program.                                               *)
(***************************************************************************)
TAB_NAME == "Input_Counts"
ITEM_MASTER_RANGE == "Item_Master!B2:B"
\* f"{TAB_NAME}!A:G"
AppendRange == <<TAB_NAME, "!A:G">>
\* os.path.dirname(__file__)
BaseDir == <<"/", "app">>

(***************************************************************************)
(* The environment of the process: what the credential documents hold and  *)
(* which files exist.                                                      *)
(***************************************************************************)
\* Texts json.loads accepts.
WellFormedJson == {"{}", "{sa-key}"}
\* Parsed documents Credentials.from_service_account_info accepts.
ServiceAccountDocs == {"{sa-key}"}
\* Files that exist, and those among them holding a service-account key.
ExistingFiles == {<<"/", "app", "key.json">>, <<"/", "app", "corrupt.json">>,
                  <<"/", "secrets", "key.json">>}
KeyFiles == {<<"/", "app", "key.json">>, <<"/", "secrets", "key.json">>}

IsAbs(p) == Len(p) > 0 /\ p[1] = "/"
PathJoin(dir, p) == dir \o p
PathExists(p) == p \in ExistingFiles

(***************************************************************************)
(* get_sheets_service().  The result is the client handle or the exception *)
(* raised; "examined" lists the credential sources the call looked at.     *)
(***************************************************************************)
Raise(exc, msg, seen) ==
    [ok |-> FALSE, exc |-> exc, err |-> msg, source |-> "none", examined |-> seen]
Client(src, seen) ==
    [ok |-> TRUE, exc |-> "", err |-> <<>>, source |-> src, examined |-> seen]
NoService == Raise("", <<>>, {})

\* build("sheets", "v4", credentials=creds): buildOk is the library's outcome.
Build(src, seen, buildOk) ==
    IF buildOk THEN Client(src, seen)
    ELSE Raise("UnknownApiNameOrVersion", <<"name: sheets  version: v4">>, seen)

\* Mutation: the SHEET_ID check is dropped.
SheetIdMissing_unchecked(c) == FALSE

\* if not SHEET_ID
SheetIdMissing(c) == ~Truthy(c.SHEET_ID)

ResolvePath(p) == IF IsAbs(p) THEN p ELSE PathJoin(BaseDir, p)

LoadKeyFile(c, buildOk) ==
    LET sa_path == ResolvePath(c.SERVICE_FILE.val) IN
    IF ~PathExists(sa_path)
    THEN Raise("RuntimeError",
               <<"Service account file not found: ">> \o sa_path, {"file"})
    ELSE IF sa_path \notin KeyFiles
    THEN Raise("ValueError",
               <<"Service account info was not in the expected format">>,
               {"file"})
    ELSE Build("file", {"file"}, buildOk)

\* Mutation: a credential that fails to load falls back to the key file.
LoadInlineJson_fallback(c, buildOk) ==
    IF c.SERVICE_ACCOUNT_JSON.val \in ServiceAccountDocs
    THEN Build("json", {"json"}, buildOk)
    ELSE IF TruthyPath(c.SERVICE_FILE) THEN LoadKeyFile(c, buildOk)
    ELSE Raise("RuntimeError",
               <<"Failed to load SERVICE_ACCOUNT_JSON: ", "Expecting value">>,
               {"json"})

LoadInlineJson(c, buildOk) ==
    IF c.SERVICE_ACCOUNT_JSON.val \notin WellFormedJson
    THEN Raise("RuntimeError",
               <<"Failed to load SERVICE_ACCOUNT_JSON: ", "Expecting value">>,
               {"json"})
    ELSE IF c.SERVICE_ACCOUNT_JSON.val \notin ServiceAccountDocs
    THEN Raise("RuntimeError",
               <<"Failed to load SERVICE_ACCOUNT_JSON: ",
                 "Service account info was not in the expected format">>,
               {"json"})
    ELSE Build("json", {"json"}, buildOk)

get_sheets_service(c, buildOk) ==
    IF SheetIdMissing(c)
    THEN Raise("RuntimeError", <<"SHEET_ID env var is not set">>, {})
    ELSE IF Truthy(c.SERVICE_ACCOUNT_JSON) THEN LoadInlineJson(c, buildOk)
    ELSE IF TruthyPath(c.SERVICE_FILE) THEN LoadKeyFile(c, buildOk)
    ELSE Raise("RuntimeError",
               <<"No service account credentials configured.">>, {})


(***************************************************************************)
(* GET /items: the filter of get_items.  A cell is the sequence of its     *)
(* characters; a row is the sequence of its cells.                         *)
(***************************************************************************)
Whitespace == {" ", "\t", "\n"}

RECURSIVE LStrip(_)
LStrip(s) == IF s = <<>> \/ s[1] \notin Whitespace THEN s ELSE LStrip(Tail(s))

RECURSIVE RStrip(_)
RStrip(s) ==
    IF s = <<>> \/ s[Len(s)] \notin Whitespace THEN s
    ELSE RStrip(SubSeq(s, 1, Len(s) - 1))

\* str.strip()
Strip(s) == RStrip(LStrip(s))

\* Mutation: the blank test forgets to strip.
KeepRow_noStrip(row) == Len(row) > 0 /\ Len(row[1]) > 0

\* row and row[0].strip()
KeepRow(row) == Len(row) > 0 /\ Len(Strip(row[1])) > 0

\* Mutation: the comprehension yields row[0].strip().
ItemOf_trimmed(row) == Strip(row[1])

\* The element the comprehension yields for a kept row: row[0].
ItemOf(row) == row[1]

RECURSIVE FilterItems(_)
\* [row[0] for row in values if row and row[0].strip()]
FilterItems(values) ==
    IF values = <<>> THEN <<>>
    ELSE (IF KeepRow(Head(values)) THEN <<ItemOf(Head(values))>> ELSE <<>>)
         \o FilterItems(Tail(values))

\* resp.get("values", [])
RespGetValues(data) == IF data.has THEN data.values ELSE <<>>

(***************************************************************************)
(* POST /submit_count: the payload, the date and the row.                  *)
(***************************************************************************)
\* class CountPayload; qty is a float, held here in tenths (35 is 3.5).
CountPayload(cn, sn, sl, it, co, q) ==
    [counter_name |-> cn, store_name |-> sn, sub_location |-> sl,
     item_name |-> it, condition |-> co, qty |-> q]
NoPayload == CountPayload("", "", "", "", "", 0)

DigitChars == <<"0", "1", "2", "3", "4", "5", "6", "7", "8", "9">>
Pow10(k) == IF k = 0 THEN 1 ELSE IF k = 1 THEN 10 ELSE IF k = 2 THEN 100 ELSE 1000
\* n written in w digits, zero-padded.
Pad(n, w) == [i \in 1..w |-> DigitChars[((n \div Pow10(w - i)) % 10) + 1]]
\* date.isoformat(): YYYY-MM-DD
IsoFormat(d) == Pad(d.year, 4) \o <<"-">> \o Pad(d.month, 2) \o <<"-">> \o Pad(d.day, 2)

\* Mutation: item_name and condition change places.
BuildRow_swapped(p, day) ==
    <<p.counter_name, p.store_name, p.sub_location, day,
      p.condition, p.item_name, p.qty>>

\* values = [[counter_name, store_name, sub_location, today, item_name, condition, qty]]
BuildRow(p, day) ==
    <<p.counter_name, p.store_name, p.sub_location, day,
      p.item_name, p.condition, p.qty>>

\* Mutation: a request without the header is let through.
PinRejected_absentOk(c, header) ==
    Truthy(c.SHARED_PIN) /\ header.set /\ header # c.SHARED_PIN

\* Mutation: the header is compared even when no PIN is configured.
PinRejected_noGuard(c, header) == header # c.SHARED_PIN

\* if SHARED_PIN and x_shared_pin != SHARED_PIN
PinRejected(c, header) == Truthy(c.SHARED_PIN) /\ header # c.SHARED_PIN

\* payload.dict()
PayloadDict(p) == p

(***************************************************************************)
(* Responses.                                                              *)
(***************************************************************************)
Response(code, kind, status, detail, items, received) ==
    [code |-> code, kind |-> kind, status |-> status, detail |-> detail,
     items |-> items, received |-> received]
NoResponse == Response(0, "none", "", <<>>, <<>>, NoPayload)
HtmlPage == Response(200, "html", "", <<>>, <<>>, NoPayload)
Unhandled == Response(500, "error", "", <<"Internal Server Error">>, <<>>, NoPayload)
HealthBody == Response(200, "health", "running", <<>>, <<>>, NoPayload)
ItemsBody(items) == Response(200, "items", "", <<>>, items, NoPayload)
HTTPException(code, detail) == Response(code, "error", "", detail, <<>>, NoPayload)
OkBody(p) == Response(200, "submit", "ok", <<>>, <<>>, PayloadDict(p))

(***************************************************************************)
(* State.                                                                  *)
(***************************************************************************)
VARIABLES
    cfg,         \* SHEET_ID, SERVICE_ACCOUNT_JSON, SERVICE_FILE, SHARED_PIN
    today,       \* the server's calendar date, date.today()
    itemMaster,  \* remote: the rows of Item_Master!B2:B
    sheet,       \* remote: the append calls that landed on Input_Counts, in order
    pc,          \* per request: idle, start, io (before the remote call), ret, done
    req,         \* per request: endpoint, X-Shared-Pin header, payload
    svc,         \* per request: what get_sheets_service() returned or raised
    body,        \* per request: the values about to be appended
    io,          \* per request: what the remote call returned or raised
    resp,        \* per request: the HTTP response
    calls        \* per request: how often it resolved credentials, read, appended

vars == <<cfg, today, itemMaster, sheet, pc, req, svc, body, io, resp, calls>>
remote == <<itemMaster, sheet>>
locals(r) == <<pc[r], req[r], svc[r], body[r], io[r], resp[r], calls[r]>>

Config(sid, js, f, pin) ==
    [SHEET_ID |-> sid, SERVICE_ACCOUNT_JSON |-> js, SERVICE_FILE |-> f,
     SHARED_PIN |-> pin]

Request(endpoint, header, payload) ==
    [endpoint |-> endpoint, header |-> header, payload |-> payload]
NoRequest == Request("", None, NoPayload)

NoData == [has |-> FALSE, values |-> <<>>]
Returned(data) == [ok |-> TRUE, err |-> <<>>, data |-> data]
Failed(msg) == [ok |-> FALSE, err |-> msg, data |-> NoData]
NoIo == Failed(<<>>)
NoCalls == [resolve |-> 0, read |-> 0, append |-> 0]

(***************************************************************************)
(* Inputs.                                                                 *)
(***************************************************************************)
SheetIds == {None, Str(""), Str("sheet-1")}
JsonTexts == {None, Str(""), Str("{bad"), Str("{}"), Str("{sa-key}")}
KeyPaths == {NonePath, Path(<<>>), Path(<<"missing.json">>),
             Path(<<"corrupt.json">>), Path(<<"key.json">>),
             Path(<<"/", "secrets", "key.json">>)}
Pins == {None, Str(""), Str("1234")}
Headers == {None, Str(""), Str("1234"), Str("1234 ")}

AllConfigs ==
    {Config(sid, js, f, pin) : sid \in SheetIds, js \in JsonTexts,
                               f \in KeyPaths, pin \in Pins}
\* The configurations of a deployment: inline credential or none.
DeployedConfigs ==
    {Config(Str("sheet-1"), js, NonePath, pin) :
        js \in {None, Str("{sa-key}")}, pin \in Pins}
GoodConfig == Config(Str("sheet-1"), Str("{sa-key}"), NonePath, None)

Dates == {[year |-> 2024, month |-> 1, day |-> 15],
          [year |-> 2025, month |-> 12, day |-> 9]}

PayloadA == CountPayload("A", "B", "C", "D", "E", 35)
PayloadB == CountPayload("Kelo", "Main", "", "Widget", "Good", 0)
Payloads == {PayloadA, PayloadB}

Widget == <<"W", "i", "d", "g", "e", "t">>
Gadget == <<"G", "a", "d", "g", "e", "t">>
WidgetColumn == << <<Widget>>, << <<" ">> >>, << <<>> >>, <<Gadget>> >>
ItemSamples == {<<>>, WidgetColumn}

\* Every column of at most MaxRows rows, a row being empty or one cell of at
\* most MaxCellLen characters.
Chars == {" ", "a"}
Cells == UNION {[1..n -> Chars] : n \in 0..MaxCellLen}
Rows == {<<>>} \cup {<<c>> : c \in Cells}
AllColumns == UNION {[1..n -> Rows] : n \in 0..MaxRows}

GetRequests == {Request(e, None, NoPayload) : e \in {"/", "/health", "/items"}}
SubmitRequests(hs) == {Request("/submit_count", h, p) : h \in hs, p \in Payloads}
AllInputs == GetRequests \cup SubmitRequests(Headers)
ConcurrentInputs == GetRequests \cup SubmitRequests({None, Str("1234")})
ItemsInputs == {Request("/items", None, NoPayload)}

(***************************************************************************)
(* Initial states: the process has imported the module (configuration      *)
(* read), no request has arrived.                                          *)
(***************************************************************************)
InitRequests ==
    /\ sheet = <<>>
    /\ pc = [r \in Requests |-> "idle"]
    /\ req = [r \in Requests |-> NoRequest]
    /\ svc = [r \in Requests |-> NoService]
    /\ body = [r \in Requests |-> <<>>]
    /\ io = [r \in Requests |-> NoIo]
    /\ resp = [r \in Requests |-> NoResponse]
    /\ calls = [r \in Requests |-> NoCalls]

Init ==
    /\ cfg \in DeployedConfigs
    /\ today \in Dates
    /\ itemMaster = WidgetColumn
    /\ InitRequests

InitSingle ==
    /\ cfg \in AllConfigs
    /\ today \in Dates
    /\ itemMaster \in ItemSamples
    /\ InitRequests

InitItems ==
    /\ cfg = GoodConfig
    /\ today = [year |-> 2024, month |-> 1, day |-> 15]
    /\ itemMaster \in AllColumns \cup ItemSamples
    /\ InitRequests

(***************************************************************************)
(* The remote spreadsheet service.  A call either returns or raises.       *)
(***************************************************************************)
RemoteErrors == {"HttpError 403: permission denied", "timed out"}
RemoteOutcomes == {"ok"} \cup RemoteErrors

\* spreadsheets().values().get(spreadsheetId, range).execute()
ReadRange(range, outcome) ==
    IF outcome # "ok" THEN Failed(<<outcome>>)
    ELSE IF range = ITEM_MASTER_RANGE /\ itemMaster # <<>>
    THEN Returned([has |-> TRUE, values |-> itemMaster])
    ELSE Returned(NoData)

\* Mutation: the values to append are kept in one place shared by all requests.
AppendCall_shared(r) ==
    [spreadsheetId |-> cfg.SHEET_ID.val, range |-> AppendRange,
     valueInputOption |-> "USER_ENTERED", values |-> body[1], by |-> r]

\* spreadsheets().values().append(spreadsheetId, range, valueInputOption, body)
AppendCall(r) ==
    [spreadsheetId |-> cfg.SHEET_ID.val, range |-> AppendRange,
     valueInputOption |-> "USER_ENTERED", values |-> body[r], by |-> r]

Finish(r, response) ==
    /\ resp' = [resp EXCEPT ![r] = response]
    /\ pc' = [pc EXCEPT ![r] = "done"]

(***************************************************************************)
(* The HTTP runtime hands request q to its handler.                        *)
(***************************************************************************)
Receive(r, inputs) ==
    /\ pc[r] = "idle"
    /\ \E q \in inputs : req' = [req EXCEPT ![r] = q]
    /\ pc' = [pc EXCEPT ![r] = "start"]
    /\ UNCHANGED <<cfg, today, remote, svc, body, io, resp, calls>>

(***************************************************************************)
(* GET /  : INDEX_PATH.read_text(); a missing file raises, unhandled.      *)
(***************************************************************************)
serve_index(r) ==
    /\ pc[r] = "start"
    /\ req[r].endpoint = "/"
    /\ \E present \in BOOLEAN : Finish(r, IF present THEN HtmlPage ELSE Unhandled)
    /\ UNCHANGED <<cfg, today, remote, req, svc, body, io, calls>>

(***************************************************************************)
(* GET /health                                                             *)
(***************************************************************************)
health(r) ==
    /\ pc[r] = "start"
    /\ req[r].endpoint = "/health"
    /\ Finish(r, HealthBody)
    /\ UNCHANGED <<cfg, today, remote, req, svc, body, io, calls>>

(***************************************************************************)
(* GET /items                                                              *)
(***************************************************************************)
\* service = get_sheets_service(); an exception goes to the except clause.
get_items_service(r) ==
    /\ pc[r] = "start"
    /\ req[r].endpoint = "/items"
    /\ \E buildOk \in BOOLEAN :
         LET s == get_sheets_service(cfg, buildOk) IN
         /\ svc' = [svc EXCEPT ![r] = s]
         /\ IF s.ok
            THEN /\ pc' = [pc EXCEPT ![r] = "io"]
                 /\ UNCHANGED resp
            ELSE Finish(r, ItemsBody(<<>>))
    /\ calls' = [calls EXCEPT ![r].resolve = @ + 1]
    /\ UNCHANGED <<cfg, today, remote, req, body, io>>

\* resp = service.spreadsheets().values().get(...).execute()
get_items_read(r) ==
    /\ pc[r] = "io"
    /\ req[r].endpoint = "/items"
    /\ \E outcome \in RemoteOutcomes : io' = [io EXCEPT ![r] = ReadRange(ITEM_MASTER_RANGE, outcome)]
    /\ calls' = [calls EXCEPT ![r].read = @ + 1]
    /\ pc' = [pc EXCEPT ![r] = "ret"]
    /\ UNCHANGED <<cfg, today, remote, req, svc, body, resp>>

\* Mutation: a failed read is surfaced as a server error.
ItemsResult_raise(result) ==
    IF result.ok THEN ItemsBody(FilterItems(RespGetValues(result.data)))
    ELSE HTTPException(500, <<"Sheets read failed: ">> \o result.err)

\* return {"items": items}, or the except clause's {"items": []}
ItemsResult(result) ==
    IF result.ok THEN ItemsBody(FilterItems(RespGetValues(result.data)))
    ELSE ItemsBody(<<>>)

get_items_return(r) ==
    /\ pc[r] = "ret"
    /\ req[r].endpoint = "/items"
    /\ Finish(r, ItemsResult(io[r]))
    /\ UNCHANGED <<cfg, today, remote, req, svc, body, io, calls>>

(***************************************************************************)
(* POST /submit_count                                                      *)
(***************************************************************************)
\* 1) the PIN check; 2) the Sheets client; then today and values.
submit_count_begin(r) ==
    /\ pc[r] = "start"
    /\ req[r].endpoint = "/submit_count"
    /\ IF PinRejected(cfg, req[r].header)
       THEN /\ Finish(r, HTTPException(401, <<"Invalid PIN">>))
            /\ UNCHANGED <<svc, body, calls>>
       ELSE /\ \E buildOk \in BOOLEAN :
                 LET s == get_sheets_service(cfg, buildOk) IN
                 /\ svc' = [svc EXCEPT ![r] = s]
                 /\ IF s.ok
                    THEN /\ body' = [body EXCEPT ![r] =
                                       <<BuildRow(req[r].payload, IsoFormat(today))>>]
                         /\ pc' = [pc EXCEPT ![r] = "io"]
                         /\ UNCHANGED resp
                    ELSE /\ Finish(r, HTTPException(500, <<"Config error: ">> \o s.err))
                         /\ UNCHANGED body
            /\ calls' = [calls EXCEPT ![r].resolve = @ + 1]
    /\ UNCHANGED <<cfg, today, remote, req, io>>

\* service.spreadsheets().values().append(...).execute(): the remote appends
\* the row and returns, or raises with nothing appended.
submit_count_append(r) ==
    /\ pc[r] = "io"
    /\ req[r].endpoint = "/submit_count"
    /\ \E outcome \in RemoteOutcomes :
         IF outcome = "ok"
         THEN /\ sheet' = Append(sheet, AppendCall(r))
              /\ io' = [io EXCEPT ![r] = Returned(NoData)]
         ELSE /\ io' = [io EXCEPT ![r] = Failed(<<outcome>>)]
              /\ UNCHANGED sheet
    /\ calls' = [calls EXCEPT ![r].append = @ + 1]
    /\ pc' = [pc EXCEPT ![r] = "ret"]
    /\ UNCHANGED <<cfg, today, itemMaster, req, svc, body, resp>>

\* Mutation: a failed append is swallowed.
SubmitResult_swallow(r, result) == OkBody(req[r].payload)

\* return {"status": "ok", "received": payload.dict()}, or the except clause's 500
SubmitResult(r, result) ==
    IF result.ok THEN OkBody(req[r].payload)
    ELSE HTTPException(500, <<"Sheets append failed: ">> \o result.err)

submit_count_return(r) ==
    /\ pc[r] = "ret"
    /\ req[r].endpoint = "/submit_count"
    /\ Finish(r, SubmitResult(r, io[r]))
    /\ UNCHANGED <<cfg, today, remote, req, svc, body, io, calls>>

(***************************************************************************)
(* Specifications.                                                         *)
(***************************************************************************)
Handle(r) ==
    \/ serve_index(r)
    \/ health(r)
    \/ get_items_service(r)
    \/ get_items_read(r)
    \/ get_items_return(r)
    \/ submit_count_begin(r)
    \/ submit_count_append(r)
    \/ submit_count_return(r)

\* The server: requests arrive and are handled concurrently.
Next == \E r \in Requests : Receive(r, ConcurrentInputs) \/ Handle(r)
Spec == Init /\ [][Next]_vars

\* One request, over every configuration and every header.
NextSingle == Receive(1, AllInputs) \/ Handle(1)
SpecSingle == InitSingle /\ [][NextSingle]_vars

\* One GET /items, over every Item_Master column within the bounds.
NextItems ==
    \/ Receive(1, ItemsInputs)
    \/ get_items_service(1)
    \/ get_items_read(1)
    \/ get_items_return(1)
SpecItems == InitItems /\ [][NextItems]_vars

(***************************************************************************)
(* Properties.                                                             *)
(***************************************************************************)
IsSubmit(r) == req[r].endpoint = "/submit_count"
IsItems(r) == req[r].endpoint = "/items"
IsDone(r) == pc[r] = "done"
PinConfigured == cfg.SHARED_PIN.set /\ cfg.SHARED_PIN.val # ""
AppendedBy(r) == {i \in 1..Len(sheet) : sheet[i].by = r}
Unauthorized == [code |-> 401, kind |-> "error", status |-> "", detail |-> <<"Invalid PIN">>,
                 items |-> <<>>, received |-> NoPayload]

\* C1: with a shared PIN configured, a /submit_count request whose
\* X-Shared-Pin header is absent or differs from the PIN ends with 401
\* "Invalid PIN"; it never resolves credentials and never calls the remote
\* append, whatever the credential configuration is.
C1_WrongPinIsRejected ==
    \A r \in Requests :
        (IsSubmit(r) /\ PinConfigured /\ req[r].header # cfg.SHARED_PIN)
        => /\ pc[r] \in {"start", "done"}
           /\ calls[r].resolve = 0 /\ calls[r].append = 0
           /\ svc[r] = NoService
           /\ AppendedBy(r) = {}
           /\ IsDone(r) => resp[r] = Unauthorized

\* A request without the header is rejected although the credential
\* configuration is broken (no SHEET_ID): 401, not 500.
C1_Witness ==
    \E r \in Requests :
        /\ IsSubmit(r) /\ PinConfigured /\ ~req[r].header.set
        /\ ~cfg.SHEET_ID.set
        /\ IsDone(r) /\ resp[r].code = 401

\* C2: with no shared PIN configured, /submit_count checks nothing: no
\* request ends in 401, a request whose credential resolution and append
\* both succeed gets {"status": "ok"}, and two requests that differ only in
\* the header (same payload, same outcome of the resolution and of the
\* append) get the same response.
C2_OpenAccess ==
    ~PinConfigured =>
        /\ \A r \in Requests :
              (IsSubmit(r) /\ IsDone(r))
              => /\ resp[r].code # 401
                 /\ (svc[r].ok /\ io[r].ok)
                    => (resp[r].code = 200 /\ resp[r].status = "ok")
        /\ \A r1, r2 \in Requests :
              (/\ IsSubmit(r1) /\ IsDone(r1) /\ IsSubmit(r2) /\ IsDone(r2)
               /\ req[r1].payload = req[r2].payload
               /\ svc[r1] = svc[r2] /\ io[r1] = io[r2])
              => resp[r1] = resp[r2]

\* Two finished requests with the same payload, one without the header and
\* one with it, both answered "ok".
C2_Witness ==
    /\ ~PinConfigured
    /\ \E r1, r2 \in Requests :
          /\ IsSubmit(r1) /\ IsDone(r1) /\ IsSubmit(r2) /\ IsDone(r2)
          /\ req[r1].payload = req[r2].payload
          /\ ~req[r1].header.set /\ req[r2].header.set
          /\ resp[r1].status = "ok" /\ resp[r2].status = "ok"

\* C3: GET /items always answers normally; when credential resolution or
\* the remote read fails the answer is {"items": []}, the read is not
\* retried (at most one read per request, none after a failed resolution).
C3_ItemsNeverRaises ==
    \A r \in Requests :
        IsItems(r)
        => /\ calls[r].resolve <= 1 /\ calls[r].read <= 1
           /\ ~svc[r].ok => calls[r].read = 0
           /\ IsDone(r)
              => /\ resp[r].code = 200 /\ resp[r].kind = "items"
                 /\ (~svc[r].ok \/ ~io[r].ok)
                    => (resp[r].items = <<>> /\ resp[r].detail = <<>>)

\* The read of a column holding item names failed, once, and the answer is
\* the empty list.
C3_Witness ==
    \E r \in Requests :
        /\ IsItems(r) /\ IsDone(r)
        /\ itemMaster = WidgetColumn
        /\ svc[r].ok /\ ~io[r].ok /\ calls[r].read = 1
        /\ resp[r].kind = "items" /\ resp[r].items = <<>>

IsBlank(cell) == \A i \in 1..Len(cell) : cell[i] \in {" ", "\t", "\n"}
HasEdgeSpace(cell) ==
    Len(cell) > 0 /\ (cell[1] \in {" ", "\t", "\n"} \/ cell[Len(cell)] \in {" ", "\t", "\n"})
\* The remote rows that have a first cell which is not blank, and the rank
\* of such a row among them.
NamedRows == {i \in 1..Len(itemMaster) : Len(itemMaster[i]) > 0 /\ ~IsBlank(itemMaster[i][1])}
Rank(i) == Cardinality({j \in NamedRows : j <= i})
NthNamedRow(k) == CHOOSE i \in NamedRows : Rank(i) = k
ReadSucceeded(r) == IsItems(r) /\ IsDone(r) /\ svc[r].ok /\ io[r].ok

\* C4: after a successful read, the items returned are the first cells of
\* exactly the remote rows that are non-empty and whose first cell is not
\* blank, in the order of the rows, none dropped, added or repeated; no
\* values at all gives [].
C4_ItemsAreTheNamedRows ==
    \A r \in Requests :
        ReadSucceeded(r)
        => /\ Len(resp[r].items) = Cardinality(NamedRows)
           /\ \A k \in 1..Len(resp[r].items) :
                 resp[r].items[k] = itemMaster[NthNamedRow(k)][1]

\* The rows [["Widget"], [" "], [""], ["Gadget"]] gave ["Widget", "Gadget"].
C4_Witness ==
    \E r \in Requests :
        /\ ReadSucceeded(r)
        /\ itemMaster = WidgetColumn
        /\ resp[r].items = <<Widget, Gadget>>

\* C5 as claimed: every returned item name has had its surrounding
\* whitespace removed.
C5_ItemsAreTrimmed ==
    \A r \in Requests :
        ReadSucceeded(r)
        => \A k \in 1..Len(resp[r].items) : ~HasEdgeSpace(resp[r].items[k])

\* C5, amended: a first cell with whitespace around non-blank text is
\* returned as it was read, its surrounding whitespace kept; stripping only
\* decides whether the row is named.
C5_ItemsAreVerbatim ==
    \A r \in Requests :
        ReadSucceeded(r)
        => \A i \in NamedRows :
              HasEdgeSpace(itemMaster[i][1])
              => /\ Rank(i) <= Len(resp[r].items)
                 /\ resp[r].items[Rank(i)] = itemMaster[i][1]
                 /\ HasEdgeSpace(resp[r].items[Rank(i)])

\* A name with a leading blank came back with its blank.
C5_Witness ==
    \E r \in Requests :
        /\ ReadSucceeded(r)
        /\ \E k \in 1..Len(resp[r].items) :
              /\ resp[r].items[k] = <<" ", "a">>
              /\ itemMaster[NthNamedRow(k)][1] = <<" ", "a">>

\* today in YYYY-MM-DD, written out.
TodayText ==
    IF today = [year |-> 2024, month |-> 1, day |-> 15]
    THEN <<"2", "0", "2", "4", "-", "0", "1", "-", "1", "5">>
    ELSE <<"2", "0", "2", "5", "-", "1", "2", "-", "0", "9">>
ReachedAppend(r) == IsSubmit(r) /\ (pc[r] \in {"io", "ret"} \/ calls[r].append > 0)

\* C6: a /submit_count request that reaches the append sends one row of
\* seven cells, [counter_name, store_name, sub_location, date, item_name,
\* condition, qty], to Input_Counts!A:G: the payload's fields unchanged and
\* date the server's current date as YYYY-MM-DD.
C6_RowIsAssembledInOrder ==
    \A r \in Requests :
        ReachedAppend(r)
        => /\ Len(body[r]) = 1
           /\ Len(body[r][1]) = 7
           /\ body[r][1][1] = req[r].payload.counter_name
           /\ body[r][1][2] = req[r].payload.store_name
           /\ body[r][1][3] = req[r].payload.sub_location
           /\ body[r][1][4] = TodayText
           /\ body[r][1][5] = req[r].payload.item_name
           /\ body[r][1][6] = req[r].payload.condition
           /\ body[r][1][7] = req[r].payload.qty
           /\ calls[r].append <= 1
           /\ \A i \in AppendedBy(r) :
                 /\ sheet[i].range = <<"Input_Counts", "!A:G">>
                 /\ sheet[i].spreadsheetId = cfg.SHEET_ID.val
                 /\ sheet[i].values = body[r]

\* The submission A, B, C, D, E, 3.5 of 2024-01-15 was appended as
\* ["A", "B", "C", "2024-01-15", "D", "E", 3.5].
C6_Witness ==
    /\ Len(sheet) = 1
    /\ sheet[1].values =
         << <<"A", "B", "C", <<"2", "0", "2", "4", "-", "0", "1", "-", "1", "5">>,
              "D", "E", 35>> >>
    /\ req[sheet[1].by].payload = PayloadA

\* C7: /submit_count calls the append at most once; a failed append ends
\* the request with a 500 that carries the error's text, with nothing
\* appended; {"status": "ok", "received": payload} is returned only after
\* the one append call succeeded, and received is the submitted payload.
C7_AppendFailureSurfaces ==
    \A r \in Requests :
        IsSubmit(r)
        => /\ calls[r].append <= 1
           /\ (IsDone(r) /\ calls[r].append = 1 /\ ~io[r].ok)
              => /\ resp[r].code = 500 /\ resp[r].kind = "error"
                 /\ resp[r].detail = <<"Sheets append failed: ">> \o io[r].err
                 /\ Len(io[r].err) = 1
                 /\ AppendedBy(r) = {}
           /\ resp[r].status = "ok"
              => /\ IsDone(r) /\ resp[r].code = 200
                 /\ calls[r].append = 1 /\ io[r].ok
                 /\ Cardinality(AppendedBy(r)) = 1
                 /\ resp[r].received = req[r].payload

\* An append timed out and the request ended with a 500 saying so.
C7_Witness ==
    \E r \in Requests :
        /\ IsSubmit(r) /\ IsDone(r)
        /\ calls[r].append = 1 /\ io[r].err = <<"timed out">>
        /\ resp[r].code = 500
        /\ resp[r].detail = <<"Sheets append failed: ", "timed out">>

SheetIdUnset == ~cfg.SHEET_ID.set \/ cfg.SHEET_ID.val = ""
Mentions(detail, text) == \E i \in 1..Len(detail) : detail[i] = text

\* C8: without SHEET_ID, credential resolution raises a configuration
\* error before looking at any credential source; /submit_count past the
\* PIN check ends with a 500 carrying that error's text and appends nothing,
\* /items reads nothing and returns {"items": []}, /health still returns
\* {"status": "running"}.
C8_NoSheetIdIsAConfigError ==
    SheetIdUnset =>
        \A r \in Requests :
            /\ calls[r].resolve > 0
               => (~svc[r].ok /\ svc[r].exc = "RuntimeError" /\ svc[r].examined = {})
            /\ calls[r].read = 0 /\ calls[r].append = 0 /\ AppendedBy(r) = {}
            /\ (IsDone(r) /\ IsSubmit(r) /\ resp[r].code # 401)
               => /\ resp[r].code = 500
                  /\ Mentions(resp[r].detail, "SHEET_ID env var is not set")
            /\ (IsDone(r) /\ IsItems(r))
               => (resp[r].code = 200 /\ resp[r].kind = "items" /\ resp[r].items = <<>>)
            /\ (IsDone(r) /\ req[r].endpoint = "/health")
               => (resp[r].code = 200 /\ resp[r].status = "running")

\* SHEET_ID is unset, a valid inline credential is configured, and a
\* /submit_count that passed the PIN check ended with the 500.
C8_Witness ==
    /\ ~cfg.SHEET_ID.set
    /\ cfg.SERVICE_ACCOUNT_JSON = Str("{sa-key}")
    /\ PinConfigured
    /\ \E r \in Requests :
          /\ IsSubmit(r) /\ IsDone(r) /\ req[r].header = cfg.SHARED_PIN
          /\ resp[r].code = 500

InlineConfigured == cfg.SERVICE_ACCOUNT_JSON.set /\ cfg.SERVICE_ACCOUNT_JSON.val # ""
KeyFileConfigured == cfg.SERVICE_FILE.set /\ cfg.SERVICE_FILE.val # <<>>
\* The configured key file is one that is there.
KeyFileThere ==
    cfg.SERVICE_FILE.val \in {<<"key.json">>, <<"corrupt.json">>, <<"/", "secrets", "key.json">>}
KeyFileGood ==
    cfg.SERVICE_FILE.val \in {<<"key.json">>, <<"/", "secrets", "key.json">>}

\* C9: with SHEET_ID set, an inline credential, when configured, is the only
\* source used: if it does not load the resolution fails with a
\* configuration error, without a look at the key file; the key file is
\* looked at only when no inline credential is configured, and a missing
\* file fails the resolution; with neither source it fails; a client is
\* returned only when the chosen source loaded.
C9_ResolutionOrder ==
    ~SheetIdUnset =>
        \A r \in Requests :
            calls[r].resolve > 0
            => /\ InlineConfigured
                  => /\ svc[r].examined = {"json"}
                     /\ cfg.SERVICE_ACCOUNT_JSON.val # "{sa-key}"
                        => (~svc[r].ok /\ svc[r].exc = "RuntimeError")
                     /\ svc[r].ok => svc[r].source = "json"
               /\ (~InlineConfigured /\ KeyFileConfigured)
                  => /\ svc[r].examined = {"file"}
                     /\ ~KeyFileThere => (~svc[r].ok /\ svc[r].exc = "RuntimeError")
                     /\ svc[r].ok => (svc[r].source = "file" /\ KeyFileGood)
               /\ (~InlineConfigured /\ ~KeyFileConfigured)
                  => (~svc[r].ok /\ svc[r].examined = {})

\* An inline credential that does not parse, beside a valid key file: the
\* resolution failed and the key file was not looked at.
C9_Witness ==
    /\ cfg.SHEET_ID = Str("sheet-1")
    /\ cfg.SERVICE_ACCOUNT_JSON = Str("{bad")
    /\ cfg.SERVICE_FILE = Path(<<"key.json">>)
    /\ \E r \in Requests :
          /\ calls[r].resolve = 1 /\ ~svc[r].ok
          /\ svc[r].exc = "RuntimeError" /\ svc[r].examined = {"json"}

Quiescent == \A r \in Requests : pc[r] \in {"idle", "done"}
AnsweredOk == {r \in Requests : IsSubmit(r) /\ IsDone(r) /\ resp[r].status = "ok"}
RowOf(r) ==
    <<req[r].payload.counter_name, req[r].payload.store_name,
      req[r].payload.sub_location, TodayText, req[r].payload.item_name,
      req[r].payload.condition, req[r].payload.qty>>

\* In every state: only /submit_count requests have called the append; each
\* appended row was appended by one request and carries that request's
\* fields; once no request is in flight there are as many appended rows as
\* /submit_count requests answered "ok".
C10_Rows ==
    /\ \A r \in Requests : ~IsSubmit(r) => (calls[r].append = 0 /\ AppendedBy(r) = {})
    /\ \A i \in 1..Len(sheet) :
          /\ IsSubmit(sheet[i].by)
          /\ sheet[i].values = <<RowOf(sheet[i].by)>>
          /\ \A j \in 1..Len(sheet) : sheet[j].by = sheet[i].by => j = i
    /\ Quiescent => Len(sheet) = Cardinality(AnsweredOk)

\* In every step: the configuration and Item_Master are not written, the
\* tab only grows, by one row at a time, and the step changes the local
\* state of one request only.
C10_Step ==
    /\ cfg' = cfg
    /\ itemMaster' = itemMaster
    /\ \/ sheet' = sheet
       \/ /\ Len(sheet') = Len(sheet) + 1
          /\ SubSeq(sheet', 1, Len(sheet)) = sheet
    /\ \A r1, r2 \in Requests :
          (locals(r1)' # locals(r1) /\ locals(r2)' # locals(r2)) => r1 = r2

\* C10: requests are independent under any interleaving: no handler writes
\* the configuration or another request's state, the GET endpoints never
\* append, every appended row carries the fields of the request that
\* appended it, and after any interleaving the number of appended rows is
\* the number of /submit_count requests answered {"status": "ok"}.
C10_RequestsAreIndependent == []C10_Rows /\ [][C10_Step]_vars

\* Two submissions with different payloads were handled concurrently, the
\* second appended first, and both were answered "ok".
C10_Witness ==
    /\ Quiescent
    /\ Len(sheet) = 2
    /\ sheet[1].by = 2 /\ sheet[2].by = 1
    /\ req[1].payload # req[2].payload
    /\ AnsweredOk = {1, 2}

=============================================================================
